---- MODULE Spec2Model ----
(***************************************************************************)
(* Model of the adept vlasov1d time-integration engine:                    *)
(*   adept/vlasov1d/integrator.py        (integrators, top-level step)     *)
(*   adept/vlasov1d/pushers/fokker_planck.py (Collisions, Krook, Dougherty)*)
(* and of the set-up helpers of adept/vlasov1d2v/helpers.py,               *)
(* adept/vfp1d/helpers.py and utils/misc.py.                               *)
(*                                                                         *)
(* Arrays produced by the pushers and solvers are kept symbolic: a value   *)
(* is named by the call (step number, position in the call's event log,    *)
(* output component) that produced it, so that "the velocity push acts on  *)
(* the space-advected distribution" is an equality of value names.  The    *)
(* collision operators are also modelled numerically, on one spatial cell, *)
(* with exact scaled-integer arithmetic.                                   *)
(***************************************************************************)
EXTENDS Integers, Sequences, FiniteSets, TLC

VARIABLES cfg, phase, err, obj, y, nstep, pc, ipc, log, loc, stp

\* The top-level program: configuration, constructed objects, state bundle,
\* position inside the step in progress, its event log and its locals, and
\* the arguments and results of the Stepper.step call in progress.
progVars == <<cfg, phase, err, obj, y, nstep, pc, ipc, log, loc, stp>>

VARIABLES nin, nf, ncalls, nops, ndiag, nerr, kout

\* The collision operators on one spatial cell: the inputs of the calls
\* (with the initial distribution), the current distribution (exact
\* rationals), how many calls were made, what the last call invoked, the
\* diagonals it built, its error, and the Krook evaluation made.
numVars == <<nin, nf, ncalls, nops, ndiag, nerr, kout>>

VARIABLES dcfg, dret

\* The set-up of the distribution function: the configuration handed to
\* _initialize_total_distribution_ and what the call returned or raised.
distVars == <<dcfg, dret>>

VARIABLES gcfg, gpc

\* The set-up of the grid: the configuration, which get_derived_quantities
\* and get_solver_quantities extend, and how far the set-up has come.
gridVars == <<gcfg, gpc>>

VARIABLES lcfg, mlflow_log, lpc

\* The logging of the parameters: the number of entries the configuration
\* flattens to, the batches handed to mlflow.log_params so far (each the set
\* of the 0-based positions of its entries in the flattened list), and
\* whether log_params has run.
logVars == <<lcfg, mlflow_log, lpc>>

\* Everything but the top-level program.
auxVars == <<numVars, distVars, gridVars, logVars>>

vars == <<progVars, auxVars>>

\* Number of top-level steps the external stepping driver takes.
MaxSteps == 2

\* Values of cfg["terms"]["time"] and cfg["terms"]["edfdv"] tried.
TimeChoices == {"sixth", "leapfrog", "rk4"}

EdfdvChoices == {"exponential", "cubic-spline", "upwind"}

\* Values of cfg["solver"]["fp_operator"] tried.
FpOperatorChoices == {"dougherty", "lenard_bernstein", "landau"}

\* Values of cfg["nuee"] tried (np.any(nuee > 0) only looks at the sign).
NueeChoices == {-1, 0, 1}

\* Values of cfg["grid"]["dt"] tried, in arbitrary time units.
DtChoices == {1, 2}

\* Number of velocity cells cfg["grid"]["nv"] of the numerical cell.
NV == 3

\* Largest value of f in a velocity cell of the initial distribution.
MaxF == 2

\* Largest collision rate (nu_fp, nu_K) tried.
MaxNu == 1

\* Number of consecutive calls of the collision step.
MaxCalls == 2

\* Largest number of keys of cfg["density"].
MaxEntries == 2

\* Largest density amplitude of a species.
MaxAmp == 2

\* Largest cfg["grid"]["xmax"] and cfg["grid"]["nx"] of the grid set-up.
MaxX == 4

MaxNx == 3

\* Largest velocity variance v0t_sq of a cell handed to the Dougherty
\* operator (keeps the exact arithmetic within the integer width).
MaxVar == 24

(***************************************************************************)
(* Symbolic values.                                                        *)
(***************************************************************************)
\* The value produced as component `part` by event k of call s.
Val(s, k, part) == [s |-> s, k |-> k, part |-> part]

\* Python None.
NoneVal == Val(-1, 0, "None")

\* A local that has not been assigned yet.
Unset == Val(-1, 0, "unset")

\* A duration coef * dt; coef "1" is dt itself, "1/2" is dt / 2, "None" is
\* dt=None.
Dur(coef, dt) == [coef |-> coef, dt |-> dt]

NoDur == Dur("None", 0)

\* One entry of a call's event log.
Ev(op, args, terms, dur, idx, toff) ==
  [op |-> op, args |-> args, terms |-> terms, dur |-> dur, idx |-> idx, toff |-> toff]

StateKeys == {"electron", "e", "de", "a", "da", "prev_a", "ni", "Z"}

\* init_state: the bundle handed to the first step.
init_state == [key \in StateKeys |-> Val(0, 0, key)]

(***************************************************************************)
(* Construction.                                                           *)
(***************************************************************************)
Raise(e) == [raised |-> TRUE, err |-> e, val |-> "none"]

Return(v) == [raised |-> FALSE, err |-> "none", val |-> v]

\* A get_edfdv that falls back to the exponential operator.
get_edfdv_fallback(c) ==
  IF c.edfdv = "cubic-spline" THEN Return("VelocityCubicSpline")
  ELSE Return("VelocityExponential")

\* TimeIntegrator.get_edfdv
get_edfdv(c) ==
  IF c.edfdv = "exponential" THEN Return("VelocityExponential")
  ELSE IF c.edfdv = "cubic-spline" THEN Return("VelocityCubicSpline")
  ELSE Raise("NotImplementedError")

\* LeapfrogIntegrator.__init__: dt_array = dt * [0.0, 1.0]
Leapfrog_dt_array == << <<>>, <<"1">> >>

\* A dt_array whose last offset leaves out the closing a1.
Sixth_dt_array_noLast ==
  << <<>>,
     <<"a1">>,
     <<"a1", "a2">>,
     <<"a1", "a2", "a3">>,
     <<"a1", "a2", "a3", "a2">>,
     <<"a1", "a2", "a3", "a2">> >>

\* SixthOrderHamIntegrator.__init__: dt_array = dt * [0, a1, a1+a2, ...],
\* each offset kept as the list of coefficients it sums.
Sixth_dt_array ==
  << <<>>,
     <<"a1">>,
     <<"a1", "a2">>,
     <<"a1", "a2", "a3">>,
     <<"a1", "a2", "a3", "a2">>,
     <<"a1", "a2", "a3", "a2", "a1">> >>

\* A decimal number kept exactly: the integer part, then four groups of six
\* decimal digits (a negative number has negative groups).
Dec(n) == <<n, 0, 0, 0, 0>>

\* SixthOrderHamIntegrator.__init__, lines 78-80: the 24-digit literals.
a1 == <<0, 168735, 950563, 437422, 448196>>

a2 == <<0, 377851, 589220, 928303, 880766>>

a3 == <<0, -93175, -79568, -731452, -657924>>

\* The number a coefficient name of a dt_array entry stands for ("1" is the
\* 1.0 of the leapfrog's dt_array).
Coefficient(name) ==
  CASE name = "a1" -> a1
    [] name = "a2" -> a2
    [] name = "a3" -> a3
    [] name = "1" -> Dec(1)

DecAdd(x, z) == [i \in 1..5 |-> x[i] + z[i]]

DecScale(n, x) == [i \in 1..5 |-> n * x[i]]

\* The canonical form of a decimal: every group in 0..999999, the carries
\* taken into the next group up.
DecNormal(x) ==
  LET l5 == x[5]
      l4 == x[4] + (l5 \div 1000000)
      l3 == x[3] + (l4 \div 1000000)
      l2 == x[2] + (l3 \div 1000000)
      l1 == x[1] + (l2 \div 1000000)
  IN <<l1, l2 % 1000000, l3 % 1000000, l4 % 1000000, l5 % 1000000>>

RECURSIVE DecSumTo(_, _)
DecSumTo(names, n) ==
  IF n = 0 THEN Dec(0)
  ELSE DecAdd(DecSumTo(names, n - 1), Coefficient(names[n]))

\* The sum the entry `names` of a dt_array is written as, left to right.
DecSum(names) == DecSumTo(names, Len(names))

\* The value of an entry of dt_array: dt times the sum.
dt_array_value(names, dt) == DecNormal(DecScale(dt, DecSum(names)))

NoObj ==
  [vlasov_poisson |-> "none", edfdv |-> "none", dex_save |-> 0,
   dt_array |-> <<>>, dt |-> 0, fp |-> "none"]

\* Collisions.__init_fp_operator__: the tests of cfg["solver"]["fp_operator"]
\* and the raise are commented out; what is left returns Dougherty(cfg).
Collisions_init_fp_operator(c) == "Dougherty"

\* A constructor that takes every unrecognised scheme for the leapfrog.
VlasovPoissonFokkerPlanck_init_fallback(c) ==
  LET ed == get_edfdv(c) IN
  IF ed.raised THEN ed
  ELSE IF c.time = "sixth"
  THEN Return([vlasov_poisson |-> "SixthOrderHamIntegrator", edfdv |-> ed.val,
               dex_save |-> 3, dt_array |-> Sixth_dt_array, dt |-> c.dt,
               fp |-> Collisions_init_fp_operator(c)])
  ELSE Return([vlasov_poisson |-> "LeapfrogIntegrator", edfdv |-> ed.val,
               dex_save |-> 0, dt_array |-> Leapfrog_dt_array, dt |-> c.dt,
               fp |-> Collisions_init_fp_operator(c)])

\* VlasovPoissonFokkerPlanck.__init__ (with the integrator constructors it
\* calls and Collisions.__init__ / __init_fp_operator__).
VlasovPoissonFokkerPlanck_init(c) ==
  IF c.time = "sixth" THEN
    LET ed == get_edfdv(c) IN
    IF ed.raised THEN ed
    ELSE Return([vlasov_poisson |-> "SixthOrderHamIntegrator", edfdv |-> ed.val,
                 dex_save |-> 3, dt_array |-> Sixth_dt_array, dt |-> c.dt,
                 fp |-> Collisions_init_fp_operator(c)])
  ELSE IF c.time = "leapfrog" THEN
    LET ed == get_edfdv(c) IN
    IF ed.raised THEN ed
    ELSE Return([vlasov_poisson |-> "LeapfrogIntegrator", edfdv |-> ed.val,
                 dex_save |-> 0, dt_array |-> Leapfrog_dt_array, dt |-> c.dt,
                 fp |-> Collisions_init_fp_operator(c)])
  ELSE Raise("NotImplementedError")

(***************************************************************************)
(* Exact arithmetic for the numerical cell.                                *)
(***************************************************************************)
Abs(x) == IF x < 0 THEN -x ELSE x

\* The element of a one-element set.  Only({F(x) : x \in {e}}) is F(e) with
\* e computed once, before F uses it.
Only(S) == CHOOSE x \in S : TRUE

RECURSIVE GCD(_, _)
GCD(a, b) == IF b = 0 THEN a ELSE GCD(b, a % b)

\* The rational n/d in lowest terms with a positive denominator (d # 0).
Rat(n, d) ==
  LET g == GCD(Abs(n), Abs(d))
      sgn == IF d < 0 THEN -1 ELSE 1
  IN [n |-> (sgn * n) \div g, d |-> (sgn * d) \div g]

RInt(k) == [n |-> k, d |-> 1]

RAdd(p, q) ==
  LET g == GCD(p.d, q.d)
  IN Rat(p.n * (q.d \div g) + q.n * (p.d \div g), (p.d \div g) * q.d)

RSub(p, q) == RAdd(p, [n |-> -q.n, d |-> q.d])

RMul(p, q) ==
  LET p1 == Rat(p.n, q.d)
      q1 == Rat(q.n, p.d)
  IN Rat(p1.n * q1.n, p1.d * q1.d)

RDiv(p, q) == RMul(p, [n |-> q.d, d |-> q.n])

RECURSIVE RSumTo(_, _)
RSumTo(s, k) == IF k = 0 THEN RInt(0) ELSE RAdd(RSumTo(s, k - 1), s[k])

\* The plain sum of a sequence of rationals.
RSum(s) == RSumTo(s, Len(s))

RECURSIVE PairSumTo(_, _)
PairSumTo(s, k) == IF k = 0 THEN 0 ELSE PairSumTo(s, k - 1) + s[k] + s[k + 1]

\* Sum over neighbouring pairs (s[i] + s[i+1]) of an integer sequence.
PairSum(s) == PairSumTo(s, Len(s) - 1)

RECURSIVE RPairSumTo(_, _)
RPairSumTo(s, k) ==
  IF k = 0 THEN RInt(0) ELSE RAdd(RPairSumTo(s, k - 1), RAdd(s[k], s[k + 1]))

RPairSum(s) == RPairSumTo(s, Len(s) - 1)

\* exp(-k/2) in 64ths, rounded down: 64, 39, 23, 14, 8, ...
RECURSIVE ExpNegHalf(_)
ExpNegHalf(k) == IF k = 0 THEN 64 ELSE (39 * ExpNegHalf(k - 1)) \div 64

(***************************************************************************)
(* The velocity grid of the numerical cell (get_solver_quantities), in     *)
(* units in which vmax = nv, so that every grid velocity is an integer.    *)
(***************************************************************************)
Vmax == NV

\* cfg_grid["dv"] = 2.0 * vmax / nv
Dv == (2 * Vmax) \div NV

\* cfg_grid["v"] = linspace(-vmax + dv/2, vmax - dv/2, nv)
VGrid == [i \in 1..NV |-> (-Vmax + Dv \div 2) + Dv * (i - 1)]

\* jnp.trapz(y, dx=dv) of an integer sequence
Trapz(ys) == (Dv * PairSum(ys)) \div 2

\* jnp.trapz(y, dx=dv) of a sequence of rationals
RTrapz(ys) == RMul(Rat(Dv, 2), RPairSum(ys))

\* jnp.roll(v, 1)[i] and jnp.roll(v, -1)[i]
RollPlus(v, i) == IF i = 1 THEN v[Len(v)] ELSE v[i - 1]

RollMinus(v, i) == IF i = Len(v) THEN v[1] ELSE v[i + 1]

(***************************************************************************)
(* Dougherty.__call__ on one spatial cell: the three diagonals.            *)
(***************************************************************************)
\* vbar = self.vx_moment(f_xv * self.v[None, :])
Dougherty_vbar(f_xv) == Trapz([i \in 1..NV |-> f_xv[i] * VGrid[i]])

\* v0t_sq = self.vx_moment(f_xv * (self.v[None, :] - vbar[:, None]) ** 2.0)
Dougherty_v0t_sq(f_xv, vbar) ==
  Trapz([i \in 1..NV |-> f_xv[i] * (VGrid[i] - vbar) * (VGrid[i] - vbar)])

\* a = nu dt (-v0t_sq / dv^2 + (roll(v, 1) - vbar) / 2 / dv)
Dougherty_a(nudt, vbar, v0t_sq) ==
  [i \in 1..NV |->
     Rat(nudt * (-2 * v0t_sq + Dv * (RollPlus(VGrid, i) - vbar)), 2 * Dv * Dv)]

\* b = 1 + nu dt (2 v0t_sq / dv^2)
Dougherty_b(nudt, vbar, v0t_sq) ==
  [i \in 1..NV |-> Rat(Dv * Dv + nudt * 2 * v0t_sq, Dv * Dv)]

\* c = nu dt (-v0t_sq / dv^2 - (roll(v, -1) - vbar) / 2 / dv)
Dougherty_c(nudt, vbar, v0t_sq) ==
  [i \in 1..NV |->
     Rat(nudt * (-2 * v0t_sq - Dv * (RollMinus(VGrid, i) - vbar)), 2 * Dv * Dv)]

\* Dougherty.__call__: the diagonals returned, with the two moments they
\* were built from.
Dougherty_call(nu, f_xv, dt) ==
  Only({ Only({ [a |-> Dougherty_a(nu * dt, vbar, v0t_sq),
                 b |-> Dougherty_b(nu * dt, vbar, v0t_sq),
                 c |-> Dougherty_c(nu * dt, vbar, v0t_sq),
                 vbar |-> vbar, v0t_sq |-> v0t_sq]
                : v0t_sq \in {Dougherty_v0t_sq(f_xv, vbar)} })
         : vbar \in {Dougherty_vbar(f_xv)} })

(***************************************************************************)
(* TridiagonalSolver.__call__ (adept/vlasov2d/solver/tridiagonal.py): the  *)
(* Thomas algorithm, a forward sweep from zero primes and a back           *)
(* substitution from zero.                                                 *)
(***************************************************************************)
\* compute_primes: one step of the forward scan
compute_primes(last, ai, bi, ci, di) ==
  LET den == RSub(bi, RMul(ai, last.cp))
  IN [cp |-> RDiv(ci, den), dp |-> RDiv(RSub(di, RMul(ai, last.dp)), den)]

\* lax.scan(compute_primes, zeros, ...): the primes of rows 1..i
RECURSIVE scan_primes(_, _, _, _, _)
scan_primes(a, b, c, d, i) ==
  IF i = 0 THEN <<>>
  ELSE LET prev == scan_primes(a, b, c, d, i - 1)
       IN IF i = 1
          THEN <<compute_primes([cp |-> RInt(0), dp |-> RInt(0)], a[i], b[i], c[i], d[i])>>
          ELSE Append(prev, compute_primes(prev[i - 1], a[i], b[i], c[i], d[i]))

\* backsubstitution: one step of the reverse scan
backsubstitution(last_x, pr) == RSub(pr.dp, RMul(pr.cp, last_x))

\* lax.scan(backsubstitution, zeros, primes, reverse=True): rows i..n
RECURSIVE scan_back(_, _)
scan_back(primes, i) ==
  IF i > Len(primes) THEN <<>>
  ELSE LET rest == scan_back(primes, i + 1)
       IN IF Len(rest) = 0
          THEN <<backsubstitution(RInt(0), primes[i])>>
          ELSE <<backsubstitution(rest[1], primes[i])>> \o rest

td_solver(a, b, c, d) == scan_back(scan_primes(a, b, c, d, Len(d)), 1)

(***************************************************************************)
(* Krook on one spatial cell.                                              *)
(***************************************************************************)
\* Krook.__init__: f_mx = exp(-v**2 / 2), before normalisation
Krook_f_mx_raw == [i \in 1..NV |-> ExpNegHalf(VGrid[i] * VGrid[i])]

\* An f_mx normalised by the rectangle rule dv * sum(f_mx).
Krook_f_mx_sum ==
  [i \in 1..NV |-> Rat(Krook_f_mx_raw[i], Dv * RSum([j \in 1..NV |-> RInt(Krook_f_mx_raw[j])]).n)]

\* Krook.__init__: self.f_mx = f_mx / np.trapz(f_mx, dx=dv)
Krook_f_mx == [i \in 1..NV |-> Rat(Krook_f_mx_raw[i], Trapz(Krook_f_mx_raw))]

\* Krook.__call__: f * exp(-nu_K dt) + n_prof * f_mx * (1 - exp(-nu_K dt))
Krook_call(nu_K, f_xv, dt) ==
  Only({ Only({ [i \in 1..NV |->
                   RAdd(RMul(f_xv[i], exp_nuKxdt),
                        RMul(RMul(n_prof, Krook_f_mx[i]), RSub(RInt(1), exp_nuKxdt)))]
                : n_prof \in {RTrapz(f_xv)} })
         : exp_nuKxdt \in {Rat(ExpNegHalf(2 * nu_K * dt), 64)} })

(***************************************************************************)
(* Collisions.__call__ on one spatial cell.                                *)
(***************************************************************************)
\* A rate of None (the term is switched off).
NoneNu == -1

IntVec(f) == [i \in 1..Len(f) |-> f[i].n]

IsIntVec(f) == \A i \in 1..Len(f) : f[i].d = 1

NoDiag == [a |-> <<>>, b |-> <<>>, c |-> <<>>, vbar |-> 0, v0t_sq |-> 0]

\* A Collisions.__call__ whose test is np.any(nuee >= 0).
Collisions_call_ge(nuee, nu_fp, nu_K, f, dt) ==
  IF nuee >= 0
  THEN IF nu_fp = NoneNu
       THEN [f |-> f, ops |-> <<"Dougherty">>, diag |-> NoDiag, err |-> "TypeError"]
       ELSE Only({ [f |-> td_solver(cee.a, cee.b, cee.c, f),
                    ops |-> <<"Dougherty", "td_solver">>, diag |-> cee, err |-> "none"]
                   : cee \in {Dougherty_call(nu_fp, IntVec(f), dt)} })
  ELSE [f |-> f, ops |-> <<>>, diag |-> NoDiag, err |-> "none"]

\* What Collisions.__call__(nu_fp, nu_K, f, dt) invokes, builds and returns.
\* The Krook call at lines 34-35 is commented out.
Collisions_call(nuee, nu_fp, nu_K, f, dt) ==
  IF nuee > 0
  THEN IF nu_fp = NoneNu
       THEN [f |-> f, ops |-> <<"Dougherty">>, diag |-> NoDiag, err |-> "TypeError"]
       ELSE Only({ [f |-> td_solver(cee.a, cee.b, cee.c, f),
                    ops |-> <<"Dougherty", "td_solver">>, diag |-> cee, err |-> "none"]
                   : cee \in {Dougherty_call(nu_fp, IntVec(f), dt)} })
  ELSE [f |-> f, ops |-> <<>>, diag |-> NoDiag, err |-> "none"]

\* No Krook evaluation made yet.
NoKrook == [in |-> <<>>, out |-> <<>>]

\* The numerical cell while the top-level program is being explored.
NumIdle ==
  /\ nin = [nuee |-> 0, nu_fp |-> NoneNu, nu_K |-> NoneNu, dt |-> 1, f |-> <<>>]
  /\ nf = <<>>
  /\ ncalls = 0
  /\ nops = <<>>
  /\ ndiag = NoDiag
  /\ nerr = "none"
  /\ kout = NoKrook

\* No Stepper.step call made yet.  Times are counted in units of dt.
NoStep ==
  [calls |-> 0, t0 |-> 0, t1 |-> 0, t |-> 0, y0 |-> init_state,
   vf_ret |-> init_state, y1 |-> init_state, result |-> "none"]

\* No distribution set-up call made yet.
NoRet == [raised |-> FALSE, err |-> "pending", val |-> "none"]

\* The distribution set-up while another part is being explored.
DistIdle ==
  /\ dcfg = [helper |-> "vfp1d", density |-> <<>>]
  /\ dret = NoRet

\* The parameters are not being logged.
LogIdle ==
  /\ lcfg = 0
  /\ mlflow_log = <<>>
  /\ lpc = "off"

\* The grid set-up while another part is being explored.
GridIdle ==
  /\ gcfg = [grid |-> <<>>, ey |-> FALSE, c_light |-> 0, vscale |-> 0]
  /\ gpc = "off"

NoLoc ==
  [f |-> Unset, f_after_v |-> Unset, pond |-> Unset, e |-> Unset,
   force |-> {}, dex |-> <<>>, djy |-> Unset, ne_before |-> Unset,
   Te_before |-> Unset, nu_fp |-> Unset, nu_K |-> Unset, ne_after |-> Unset,
   t |-> 0]

Init ==
  /\ cfg \in [time : TimeChoices, edfdv : EdfdvChoices, hampere : BOOLEAN,
              fp_on : BOOLEAN, krook_on : BOOLEAN, nuee : NueeChoices,
              fp_operator : FpOperatorChoices,
              dt : DtChoices]
  /\ phase = "unbuilt"
  /\ err = "none"
  /\ obj = NoObj
  /\ y = init_state
  /\ nstep = 0
  /\ pc = "idle"
  /\ ipc = 0
  /\ log = <<>>
  /\ loc = NoLoc
  /\ stp = NoStep
  /\ NumIdle
  /\ DistIdle
  /\ GridIdle
  /\ LogIdle

\* VlasovMaxwell.__init__
Construct ==
  /\ phase = "unbuilt"
  /\ LET r == VlasovPoissonFokkerPlanck_init(cfg) IN
       IF r.raised
       THEN /\ phase' = "failed"
            /\ err' = r.err
            /\ obj' = obj
       ELSE /\ phase' = "ready"
            /\ err' = "none"
            /\ obj' = r.val
  /\ UNCHANGED <<cfg, stp, y, nstep, pc, ipc, log, loc, auxVars>>

(***************************************************************************)
(* VlasovMaxwell.__call__ : one top-level step.                            *)
(***************************************************************************)
\* Number of the call in progress (values it produces carry this number).
CallNo == nstep + 1

\* The value produced by the event about to be appended to lg.
NewVal(lg, part) == Val(CallNo, Len(lg) + 1, part)

\* An index that always reads the driver value of the first stage.
DexAt_first(l, i) == l.dex[1]

\* dex[i] with Python's 0-based index.
DexAt(l, i) == l.dex[i + 1]

\* Line 221: dex = [self.ex_driver(t + dt, args) for dt in dt_array]
ExDriverEvents(dta) ==
  [i \in 1..Len(dta) |-> Ev("ex_driver", <<>>, {}, NoDur, i - 1, dta[i])]

\* Line 222: djy = self.ey_driver(t + dt_array[1], args)
EyDriverEvent(dta) == Ev("ey_driver", <<>>, {}, NoDur, 1, dta[2])

(***************************************************************************)
(* Stepper.step, called by the fixed-step driver once per step with        *)
(* t0 = (number of steps taken) dt, t1 = t0 + dt and y0 = the current      *)
(* state; the driver takes the returned y1 as the next state.              *)
(***************************************************************************)
\* A step that evaluates the step function at the end of the interval.
Stepper_vf_time_end(t0, t1) == t1

\* Line 20: the time handed to terms.vf
Stepper_vf_time(t0, t1) == t0

\* Lines 18-20: del solver_state, made_jump; y1 = terms.vf(t0, y0, args)
Stepper_step ==
  /\ phase = "ready"
  /\ pc = "idle"
  /\ stp.calls < MaxSteps
  /\ stp' = [stp EXCEPT !.calls = stp.calls + 1,
                        !.t0 = stp.calls,
                        !.t1 = stp.calls + 1,
                        !.t = Stepper_vf_time(stp.calls, stp.calls + 1),
                        !.y0 = y,
                        !.result = "none"]
  /\ pc' = "drivers"
  /\ UNCHANGED <<cfg, phase, err, obj, y, nstep, ipc, log, loc, auxVars>>

\* Lines 20-22: y1 is what terms.vf returned; dense_info = dict(y0, y1);
\* return y1, None, dense_info, None, RESULTS.successful
Stepper_return ==
  /\ pc = "ret"
  /\ stp' = [stp EXCEPT !.y1 = stp.vf_ret, !.result = "successful"]
  /\ y' = stp.vf_ret
  /\ pc' = "idle"
  /\ UNCHANGED <<cfg, phase, err, obj, nstep, ipc, log, loc, auxVars>>

\* Lines 221-222
EvalDrivers ==
  /\ pc = "drivers"
  /\ LET n == Len(obj.dt_array) IN
       /\ log' = ExDriverEvents(obj.dt_array) \o <<EyDriverEvent(obj.dt_array)>>
       /\ loc' = [NoLoc EXCEPT !.dex = [i \in 1..n |-> Val(CallNo, i, "out")],
                               !.djy = Val(CallNo, n + 1, "out"),
                               !.t = stp.t]
  /\ pc' = "moments"
  /\ UNCHANGED <<cfg, stp, phase, err, obj, y, nstep, ipc, auxVars>>

\* Lines 224-225: ne_before, Te_before from y["electron"]
Moments ==
  /\ pc = "moments"
  /\ LET ne == NewVal(log, "out")
         lg1 == Append(log, Ev("moment_x", <<y.electron>>, {}, NoDur, -1, <<>>))
         Te == NewVal(lg1, "out")
     IN /\ log' = Append(lg1, Ev("Te", <<y.electron, ne>>, {}, NoDur, -1, <<>>))
        /\ loc' = [loc EXCEPT !.ne_before = ne, !.Te_before = Te]
  /\ pc' = "nu"
  /\ UNCHANGED <<cfg, stp, phase, err, obj, y, nstep, ipc, auxVars>>

\* A Fokker-Planck profile left as the configured shape.
nu_fp_scale_none(l) == <<>>

\* Line 228: the factors the shape nu_prof(t, nu_args) is scaled by,
\* * ne_before / Te_before**1.5
nu_fp_scale(l) == <<l.ne_before, l.Te_before>>

\* Lines 227-248 and 164: the two rate profiles, then the call of self.vpfp,
\* which calls the integrator with f = y["electron"] and prev_ex = y["e"].
\* The event "nu_prof_fp" is the evaluation of line 228, the shape times
\* its first argument over its second to the power 1.5; "nu_prof_krook" is
\* the shape alone (line 235).
NuProfiles ==
  /\ pc = "nu"
  /\ LET lg1 == IF cfg.fp_on
                THEN Append(log, Ev("nu_prof_fp", nu_fp_scale(loc),
                                    {}, NoDur, -1, <<>>))
                ELSE log
         nufp == IF cfg.fp_on THEN NewVal(log, "out") ELSE NoneVal
         lg2 == IF cfg.krook_on
                THEN Append(lg1, Ev("nu_prof_krook", <<>>, {}, NoDur, -1, <<>>))
                ELSE lg1
         nuK == IF cfg.krook_on THEN NewVal(lg1, "out") ELSE NoneVal
     IN /\ log' = Append(lg2, Ev("vlasov_poisson", <<y.electron, y.ni, y.Z, y.a, y.e>>,
                                 {}, NoDur, -1, <<>>))
        /\ loc' = [loc EXCEPT !.nu_fp = nufp, !.nu_K = nuK, !.f = y.electron]
  /\ pc' = "integ"
  /\ ipc' = 1
  /\ UNCHANGED <<cfg, stp, phase, err, obj, y, nstep, auxVars>>

(***************************************************************************)
(* SixthOrderHamIntegrator.__call__                                        *)
(***************************************************************************)
Stmt(op, coef, idx) == [op |-> op, coef |-> coef, idx |-> idx]

\* SixthStmts with a seventh field solve after the last velocity push.
SixthStmts_trailingSolve ==
  << Stmt("field_solve", "None", 0), Stmt("edfdv", "D1", -1),
     Stmt("vdfdx", "a1", -1),
     Stmt("field_solve", "None", 1), Stmt("edfdv", "D2", -1),
     Stmt("vdfdx", "a2", -1),
     Stmt("field_solve", "None", 2), Stmt("edfdv", "D3", -1),
     Stmt("vdfdx", "a3", -1),
     Stmt("field_solve", "None", 3), Stmt("edfdv", "D3", -1),
     Stmt("vdfdx", "a2", -1),
     Stmt("field_solve", "None", 4), Stmt("edfdv", "D2", -1),
     Stmt("vdfdx", "a1", -1),
     Stmt("field_solve", "None", 5), Stmt("edfdv", "D1", -1),
     Stmt("field_solve", "None", 5) >>

\* SixthStmts with the second and third space pushes exchanged.
SixthStmts_swapped ==
  << Stmt("field_solve", "None", 0), Stmt("edfdv", "D1", -1),
     Stmt("vdfdx", "a1", -1),
     Stmt("field_solve", "None", 1), Stmt("edfdv", "D2", -1),
     Stmt("vdfdx", "a3", -1),
     Stmt("field_solve", "None", 2), Stmt("edfdv", "D3", -1),
     Stmt("vdfdx", "a2", -1),
     Stmt("field_solve", "None", 3), Stmt("edfdv", "D3", -1),
     Stmt("vdfdx", "a2", -1),
     Stmt("field_solve", "None", 4), Stmt("edfdv", "D2", -1),
     Stmt("vdfdx", "a1", -1),
     Stmt("field_solve", "None", 5), Stmt("edfdv", "D1", -1) >>

\* The statements of SixthOrderHamIntegrator.__call__, lines 107-139.  A
\* field_solve statement stands for the solve and the assignment of
\* force = ponderomotive_force + dex_array[idx] + self_consistent_ex.
SixthStmts ==
  << Stmt("field_solve", "None", 0), Stmt("edfdv", "D1", -1),
     Stmt("vdfdx", "a1", -1),
     Stmt("field_solve", "None", 1), Stmt("edfdv", "D2", -1),
     Stmt("vdfdx", "a2", -1),
     Stmt("field_solve", "None", 2), Stmt("edfdv", "D3", -1),
     Stmt("vdfdx", "a3", -1),
     Stmt("field_solve", "None", 3), Stmt("edfdv", "D3", -1),
     Stmt("vdfdx", "a2", -1),
     Stmt("field_solve", "None", 4), Stmt("edfdv", "D2", -1),
     Stmt("vdfdx", "a1", -1),
     Stmt("field_solve", "None", 5), Stmt("edfdv", "D1", -1) >>

InSixth == pc = "integ" /\ obj.vlasov_poisson = "SixthOrderHamIntegrator"

\* Advance within the integrator; after its last statement control returns
\* to VlasovPoissonFokkerPlanck.__call__, line 165.
Advance(n) ==
  IF ipc = n THEN pc' = "fp" /\ ipc' = 0
             ELSE pc' = pc /\ ipc' = ipc + 1

\* field_solve(f=f, a=a, ni=ni, Z=Z, prev_ex=None, dt=None), then the force
SO_field_solve ==
  /\ InSixth
  /\ SixthStmts[ipc].op = "field_solve"
  /\ LET pond == NewVal(log, "pond")
         e == NewVal(log, "e")
     IN /\ log' = Append(log, Ev("field_solve", <<loc.f, y.a, y.ni, y.Z, NoneVal>>,
                                 {}, NoDur, -1, <<>>))
        /\ loc' = [loc EXCEPT !.pond = pond, !.e = e,
                              !.force = {pond, DexAt(loc, SixthStmts[ipc].idx), e}]
  /\ Advance(Len(SixthStmts))
  /\ UNCHANGED <<cfg, stp, phase, err, obj, y, nstep, auxVars>>

\* f = self.edfdv(f=f, e=force, dt=self.D* * self.dt)
SO_edfdv ==
  /\ InSixth
  /\ SixthStmts[ipc].op = "edfdv"
  /\ log' = Append(log, Ev("edfdv", <<loc.f>>, loc.force,
                           Dur(SixthStmts[ipc].coef, obj.dt), -1, <<>>))
  /\ loc' = [loc EXCEPT !.f = NewVal(log, "f")]
  /\ Advance(Len(SixthStmts))
  /\ UNCHANGED <<cfg, stp, phase, err, obj, y, nstep, auxVars>>

\* f = self.vdfdx(f=f, dt=self.a* * self.dt)
SO_vdfdx ==
  /\ InSixth
  /\ SixthStmts[ipc].op = "vdfdx"
  /\ log' = Append(log, Ev("vdfdx", <<loc.f>>, {},
                           Dur(SixthStmts[ipc].coef, obj.dt), -1, <<>>))
  /\ loc' = [loc EXCEPT !.f = NewVal(log, "f")]
  /\ Advance(Len(SixthStmts))
  /\ UNCHANGED <<cfg, stp, phase, err, obj, y, nstep, auxVars>>

(***************************************************************************)
(* LeapfrogIntegrator.__call__                                             *)
(***************************************************************************)
InLeapfrog == pc = "integ" /\ obj.vlasov_poisson = "LeapfrogIntegrator"

\* A leapfrog whose space advection is handed dt=self.dt / 2.
LeapfrogSpaceDt_half(dt) == Dur("1/2", dt)

\* The duration handed to vdfdx at line 57: dt=self.dt
LeapfrogSpaceDt(dt) == Dur("1", dt)

\* The duration handed to edfdv at line 63: dt=self.dt
LeapfrogVelocityDt(dt) == Dur("1", dt)

\* A leapfrog whose force leaves out the ponderomotive term.
LeapfrogForce_noPond(pond, e, dex) == {e, dex[1]}

\* The force handed to edfdv at line 63: pond + e + dex_array[0]
LeapfrogForce(pond, e, dex) == {pond, e, dex[1]}

\* Line 57: f_after_v = self.vdfdx(f=f, dt=self.dt)
LF_vdfdx ==
  /\ InLeapfrog
  /\ ipc = 1
  /\ log' = Append(log, Ev("vdfdx", <<loc.f>>, {}, LeapfrogSpaceDt(obj.dt), -1, <<>>))
  /\ loc' = [loc EXCEPT !.f_after_v = NewVal(log, "f")]
  /\ ipc' = 2
  /\ UNCHANGED <<cfg, stp, phase, err, obj, y, nstep, pc, auxVars>>

\* Lines 58-62: the field solve, on f (hampere) or on f_after_v
LF_field_solve ==
  /\ InLeapfrog
  /\ ipc = 2
  /\ LET f_for_field == IF cfg.hampere THEN loc.f ELSE loc.f_after_v IN
       log' = Append(log, Ev("field_solve", <<f_for_field, y.a, y.ni, y.Z, y.e>>,
                             {}, Dur("1", obj.dt), -1, <<>>))
  /\ loc' = [loc EXCEPT !.pond = NewVal(log, "pond"), !.e = NewVal(log, "e")]
  /\ ipc' = 3
  /\ UNCHANGED <<cfg, stp, phase, err, obj, y, nstep, pc, auxVars>>

\* Lines 63-65: f = self.edfdv(f=f_after_v, e=pond + e + dex_array[0], dt=self.dt)
LF_edfdv ==
  /\ InLeapfrog
  /\ ipc = 3
  /\ LET force == LeapfrogForce(loc.pond, loc.e, loc.dex) IN
       /\ log' = Append(log, Ev("edfdv", <<loc.f_after_v>>, force,
                                LeapfrogVelocityDt(obj.dt), -1, <<>>))
       /\ loc' = [loc EXCEPT !.f = NewVal(log, "f"), !.force = force]
  /\ pc' = "fp"
  /\ ipc' = 0
  /\ UNCHANGED <<cfg, stp, phase, err, obj, y, nstep, auxVars>>

(***************************************************************************)
(* Collisions.__call__ as called from VlasovPoissonFokkerPlanck.__call__   *)
(***************************************************************************)
\* The events of Collisions.__call__(nu_fp, nu_K, f, dt) appended to lg: the
\* call itself, then the Dougherty diagonals and the tridiagonal solve when
\* np.any(nuee > 0), and nothing else (the Krook call is commented out).
CollisionEvents(c, lg, nu_fp, nu_K, f, dt) ==
  LET lg0 == Append(lg, Ev("Collisions", <<nu_fp, nu_K, f>>, {}, Dur("1", dt), -1, <<>>))
  IN IF c.nuee > 0
     THEN LET lg1 == Append(lg0, Ev("Dougherty", <<nu_fp, f>>, {}, Dur("1", dt), -1, <<>>))
              k == Len(lg1)
          IN Append(lg1, Ev("td_solver",
                            <<Val(CallNo, k, "a"), Val(CallNo, k, "b"),
                              Val(CallNo, k, "c"), f>>, {}, NoDur, -1, <<>>))
     ELSE lg0

\* The f returned by Collisions.__call__.
CollisionResult(c, lg, nu_fp, nu_K, f, dt) ==
  IF c.nuee > 0 THEN Val(CallNo, Len(lg) + 3, "f") ELSE f

\* Line 165: f = self.fp(nu_fp, nu_K, f, dt=self.dt).  Dougherty multiplies
\* nu by dt, which raises TypeError when nu is None.
Collide ==
  /\ pc = "fp"
  /\ IF cfg.nuee > 0 /\ loc.nu_fp = NoneVal
     THEN /\ phase' = "failed"
          /\ err' = "TypeError"
          /\ pc' = "idle"
          /\ log' = log \o
                    << Ev("Collisions", <<loc.nu_fp, loc.nu_K, loc.f>>, {},
                          Dur("1", obj.dt), -1, <<>>),
                       Ev("Dougherty", <<loc.nu_fp, loc.f>>, {},
                          Dur("1", obj.dt), -1, <<>>) >>
          /\ UNCHANGED loc
     ELSE /\ log' = CollisionEvents(cfg, log, loc.nu_fp, loc.nu_K, loc.f, obj.dt)
          /\ loc' = [loc EXCEPT !.f = CollisionResult(cfg, log, loc.nu_fp, loc.nu_K,
                                                      loc.f, obj.dt)]
          /\ pc' = "ne_after"
          /\ UNCHANGED <<phase, err>>
  /\ UNCHANGED <<cfg, stp, obj, y, nstep, ipc, auxVars>>

\* Line 249: ne_after = self.moment_x(f)
MomentAfter ==
  /\ pc = "ne_after"
  /\ log' = Append(log, Ev("moment_x", <<loc.f>>, {}, NoDur, -1, <<>>))
  /\ loc' = [loc EXCEPT !.ne_after = NewVal(log, "out")]
  /\ pc' = "wave"
  /\ UNCHANGED <<cfg, stp, phase, err, obj, y, nstep, ipc, auxVars>>

\* A wave solve driven by the post-step density alone.
electron_charge_after(ne_before, ne_after) == {ne_after}

\* Line 251: electron_charge = 0.5 * (ne_before + ne_after)
electron_charge(ne_before, ne_after) == {ne_before, ne_after}

\* A bundle whose ni and Z entries are exchanged.
ReturnedBundle_swapped(yin, l, a, prev_a, dex_save) ==
  [electron |-> l.f,
   a |-> a,
   ni |-> yin.Z,
   Z |-> yin.ni,
   prev_a |-> prev_a,
   da |-> l.djy,
   de |-> DexAt(l, dex_save),
   e |-> l.e]

\* Lines 253-262: the returned dict
ReturnedBundle(yin, l, a, prev_a, dex_save) ==
  [electron |-> l.f,
   a |-> a,
   ni |-> yin.ni,
   Z |-> yin.Z,
   prev_a |-> prev_a,
   da |-> l.djy,
   de |-> DexAt(l, dex_save),
   e |-> l.e]

\* Lines 251-262: the wave solve and the returned bundle
WaveSolveReturn ==
  /\ pc = "wave"
  /\ log' = Append(log, Ev("wave_solver", <<y.a, y.prev_a, loc.djy>>,
                           electron_charge(loc.ne_before, loc.ne_after),
                           NoDur, -1, <<>>))
  /\ stp' = [stp EXCEPT !.vf_ret = ReturnedBundle(y, loc, NewVal(log, "a"),
                                                    NewVal(log, "prev_a"),
                                                    obj.dex_save)]
  /\ nstep' = nstep + 1
  /\ pc' = "ret"
  /\ UNCHANGED <<cfg, phase, err, obj, y, ipc, loc, auxVars>>

Next ==
  \/ Construct
  \/ Stepper_step
  \/ Stepper_return
  \/ EvalDrivers
  \/ Moments
  \/ NuProfiles
  \/ SO_field_solve
  \/ SO_edfdv
  \/ SO_vdfdx
  \/ LF_vdfdx
  \/ LF_field_solve
  \/ LF_edfdv
  \/ Collide
  \/ MomentAfter
  \/ WaveSolveReturn

Spec == Init /\ [][Next]_vars

(***************************************************************************)
(* The collision operators applied to a concrete distribution.             *)
(***************************************************************************)
\* The top-level program while the numerical cell is being explored.
ProgIdle ==
  /\ cfg = [time |-> "leapfrog", edfdv |-> "exponential", hampere |-> FALSE,
            fp_on |-> FALSE, krook_on |-> FALSE, nuee |-> 0,
            fp_operator |-> "dougherty", dt |-> 1]
  /\ phase = "unbuilt"
  /\ err = "none"
  /\ obj = NoObj
  /\ y = init_state
  /\ nstep = 0
  /\ pc = "idle"
  /\ ipc = 0
  /\ log = <<>>
  /\ loc = NoLoc
  /\ stp = NoStep

Rates == {NoneNu} \cup (0..MaxNu)

InitColl ==
  /\ ProgIdle
  /\ nin \in [nuee : NueeChoices, nu_fp : Rates, nu_K : Rates, dt : DtChoices,
              f : [1..NV -> {RInt(k) : k \in 0..MaxF}]]
  /\ nf = nin.f
  /\ ncalls = 0
  /\ nops = <<>>
  /\ ndiag = NoDiag
  /\ nerr = "none"
  /\ kout = NoKrook
  /\ DistIdle
  /\ GridIdle
  /\ LogIdle

\* The cells the Dougherty operator is applied to in the model: integer
\* valued f of bounded variance.
InRange(f) ==
  /\ IsIntVec(f)
  /\ Dougherty_v0t_sq(IntVec(f), Dougherty_vbar(IntVec(f))) <= MaxVar

\* One call f = Collisions.__call__(nu_fp, nu_K, f, dt).
CollideN ==
  /\ ncalls < MaxCalls
  /\ nerr = "none"
  /\ nin.nuee > 0 => InRange(nf)
  /\ LET r == Collisions_call(nin.nuee, nin.nu_fp, nin.nu_K, nf, nin.dt) IN
       /\ nf' = r.f
       /\ nops' = r.ops
       /\ ndiag' = r.diag
       /\ nerr' = r.err
  /\ ncalls' = ncalls + 1
  /\ UNCHANGED <<nin, kout, progVars, distVars, gridVars, logVars>>

\* One evaluation of Krook.__call__(nu_K, f, dt) on the current f.
KrookN ==
  /\ nin.nu_K # NoneNu
  /\ kout = NoKrook
  /\ kout' = [in |-> nf, out |-> Krook_call(nin.nu_K, nf, nin.dt)]
  /\ UNCHANGED <<nin, nf, ncalls, nops, ndiag, nerr, progVars, distVars, gridVars, logVars>>

NextColl ==
  \/ CollideN
  \/ KrookN

SpecColl == InitColl /\ [][NextColl]_vars

(***************************************************************************)
(* _initialize_total_distribution_ (adept/vfp1d/helpers.py and             *)
(* adept/vlasov1d2v/helpers.py).  cfg["density"] is a sequence of entries  *)
(* in the dict's order; a key is the sequence of its pieces, so that       *)
(* "my-species-" is <<"my-", "species-">>.  A distribution is kept as its  *)
(* value at one phase-space point, in units of the unit Maxwellian there.  *)
(***************************************************************************)
KeyChoices == { <<"species-", "background">>, <<"species-", "beam">>, <<"my-", "species-">> }

BasisChoices == {"uniform", "tanh", "sine", "gaussian"}

HelperChoices == {"vfp1d", "vlasov1d2v"}

\* A test for "species-" anywhere in the key.
startswith_species_anywhere(name) == \E i \in 1..Len(name) : name[i] = "species-"

\* name.startswith("species-")
startswith_species(name) == Len(name) > 0 /\ name[1] = "species-"

\* vfp1d lines 255-277, for k in ["n", "T"]: the profile of one quantity,
\* here its amplitude; an unrecognised basis raises NotImplementedError.
profile(species_params, k) ==
  IF species_params.basis[k] = "uniform" THEN Return(species_params.amp)
  ELSE IF species_params.basis[k] = "tanh" THEN Return(species_params.amp)
  ELSE IF species_params.basis[k] = "sine" THEN Return(species_params.amp)
  ELSE Raise("NotImplementedError")

\* get_1D_n_and_T_profile (adept/vlasov1d/helpers.py), called at line 108 of
\* the 1d2v helper: the same three bases.
get_1D_n_and_T_profile(species_params) ==
  IF \A k \in {"n", "T"} : species_params.basis[k] \in {"uniform", "tanh", "sine"}
  THEN Return(species_params.amp)
  ELSE Raise("NotImplementedError")

\* The profiles of one species: vfp1d builds "n" then "T" itself, the 1d2v
\* helper calls get_1D_n_and_T_profile.
species_profiles(helper, species_params) ==
  IF helper = "vfp1d"
  THEN LET pn == profile(species_params, "n") IN
       IF pn.raised THEN pn ELSE
       LET pT == profile(species_params, "T") IN
       IF pT.raised THEN pT ELSE pn
  ELSE get_1D_n_and_T_profile(species_params)

\* The loop over cfg["density"].items() from entry i on, with the f, the
\* density and the species_found flag accumulated so far, then the test of
\* species_found and the return.
RECURSIVE total_distribution_loop(_, _, _, _, _, _)
total_distribution_loop(helper, density, i, f, n, species_found) ==
  IF i > Len(density)
  THEN IF ~species_found THEN Raise("ValueError") ELSE Return([f |-> f, n |-> n])
  ELSE LET e == density[i] IN
       IF startswith_species(e.name)
       THEN LET profs == species_profiles(helper, e) IN
            IF profs.raised THEN profs
            ELSE total_distribution_loop(helper, density, i + 1,
                                         f + profs.val, n + profs.val, TRUE)
       ELSE total_distribution_loop(helper, density, i + 1, f, n, species_found)

\* _initialize_total_distribution_(cfg, cfg_grid)
initialize_total_distribution(c) ==
  total_distribution_loop(c.helper, c.density, 1, 0, 0, FALSE)

\* The entries one key of cfg["density"] can have.
DensityEntries ==
  [name : KeyChoices, basis : [{"n", "T"} -> BasisChoices], amp : 1..MaxAmp]

\* The dicts tried: up to MaxEntries entries with distinct keys.
DensityChoices ==
  UNION { { d \in [1..len -> DensityEntries] :
              \A i, j \in 1..len : i # j => d[i].name # d[j].name }
          : len \in 0..MaxEntries }

InitDist ==
  /\ ProgIdle
  /\ NumIdle
  /\ dcfg \in [helper : HelperChoices, density : DensityChoices]
  /\ dret = NoRet
  /\ GridIdle
  /\ LogIdle

\* One call of _initialize_total_distribution_.
InitializeDistribution ==
  /\ dret.err = "pending"
  /\ dret' = initialize_total_distribution(dcfg)
  /\ UNCHANGED <<dcfg, progVars, numVars, gridVars, logVars>>

NextDist == InitializeDistribution

SpecDist == InitDist /\ [][NextDist]_vars

(***************************************************************************)
(* get_derived_quantities and get_solver_quantities                        *)
(* (adept/vlasov1d2v/helpers.py).  Floats are exact rationals.  The        *)
(* spectral axes (kx, kxr, kv, kvr and their inverses) and the unit        *)
(* profiles, which nothing here reads back, are left out; the time axis    *)
(* is kept as the arguments of its linspace.                               *)
(***************************************************************************)
XminChoices == {-1, 0, 1}

\* Values of cfg["grid"]["tmax"] tried: a short run and one of more than
\* 10^6 steps.
TmaxChoices == {3, 1500000}

\* Values of cfg["units"]["derived"]["c_light"] and of the factor
\* sqrt(Te / (m_e c^2)) tried.
CLightChoices == {10}

VscaleChoices == { [n |-> 1, d |-> 2] }

\* Values of cfg["grid"]["vmax"] tried.
VmaxChoices == {6}

\* int(x) for x >= 0
IntOf(x) == x.n \div x.d

\* np.linspace(start, stop, num)
linspace(start, stop, num) ==
  [i \in 1..num |->
     IF num = 1 THEN start
     ELSE RAdd(start, RMul(Rat(i - 1, num - 1), RSub(stop, start)))]

\* Line 150: cfg_grid["dx"] = cfg_grid["xmax"] / cfg_grid["nx"]
derived_dx(g) == RDiv(g.xmax, RInt(g.nx))

\* A step budget without the cap.
derived_max_steps_uncapped(nt) == nt + 4

\* Lines 165-169: max_steps
derived_max_steps(nt) == IF nt > 1000000 THEN 1000000 ELSE nt + 4

\* get_derived_quantities(cfg): the new cfg["grid"]
get_derived_quantities(c) ==
  LET g == c.grid
      dx == derived_dx(g)
      vmax == RMul(g.vmax, c.vscale)
      dv == RDiv(RMul(RInt(2), vmax), RInt(g.nv))
      dt == IF c.ey THEN RDiv(RMul(Rat(95, 100), dx), RInt(c.c_light)) ELSE g.dt
      nt == IntOf(RAdd(RDiv(g.tmax, dt), RInt(1)))
  IN [xmin |-> g.xmin, xmax |-> g.xmax, nx |-> g.nx, nv |-> g.nv,
      dx |-> dx, vmax |-> vmax, dv |-> dv, dt |-> dt, nt |-> nt,
      max_steps |-> derived_max_steps(nt),
      tmax |-> RMul(dt, RInt(nt))]

\* get_solver_quantities(cfg): the new cfg["grid"]
get_solver_quantities(c) ==
  LET g == c.grid
      x == linspace(RAdd(g.xmin, RDiv(g.dx, RInt(2))),
                    RSub(g.xmax, RDiv(g.dx, RInt(2))), g.nx)
      v == linspace(RAdd(RSub(RInt(0), g.vmax), RDiv(g.dv, RInt(2))),
                    RSub(g.vmax, RDiv(g.dv, RInt(2))), g.nv)
      x_a == <<RSub(x[1], g.dx)>> \o x \o <<RAdd(x[Len(x)], g.dx)>>
  IN [xmin |-> g.xmin, xmax |-> g.xmax, nx |-> g.nx, nv |-> g.nv,
      dx |-> g.dx, vmax |-> g.vmax, dv |-> g.dv, dt |-> g.dt, nt |-> g.nt,
      max_steps |-> g.max_steps, tmax |-> g.tmax,
      x |-> x, v |-> v, x_a |-> x_a,
      t |-> [start |-> RInt(0), stop |-> g.tmax, num |-> g.nt]]

\* The cfg["grid"] sections tried.
GridChoices ==
  { [xmin |-> RInt(xmin), xmax |-> RInt(xmax), nx |-> nx, nv |-> NV,
     vmax |-> RInt(vmax), tmax |-> RInt(tmax), dt |-> RInt(dt)] :
      xmin \in XminChoices, xmax \in 2..MaxX, nx \in 1..MaxNx,
      vmax \in VmaxChoices, tmax \in TmaxChoices, dt \in DtChoices }

InitGrid ==
  /\ ProgIdle
  /\ NumIdle
  /\ DistIdle
  /\ LogIdle
  /\ gcfg \in [grid : GridChoices, ey : BOOLEAN, c_light : CLightChoices,
               vscale : VscaleChoices]
  /\ gpc = "config"

\* cfg = get_derived_quantities(cfg), run before the parameters are logged.
GetDerivedQuantities ==
  /\ gpc = "config"
  /\ gcfg' = [gcfg EXCEPT !.grid = get_derived_quantities(gcfg)]
  /\ gpc' = "derived"
  /\ UNCHANGED <<progVars, numVars, distVars, logVars>>

\* cfg["grid"] = get_solver_quantities(cfg), run after it.
GetSolverQuantities ==
  /\ gpc = "derived"
  /\ gcfg' = [gcfg EXCEPT !.grid = get_solver_quantities(gcfg)]
  /\ gpc' = "solver"
  /\ UNCHANGED <<progVars, numVars, distVars, logVars>>

NextGrid ==
  \/ GetDerivedQuantities
  \/ GetSolverQuantities

SpecGrid == InitGrid /\ [][NextGrid]_vars

(***************************************************************************)
(* utils/misc.py: log_params                                               *)
(***************************************************************************)
\* Largest number of entries a configuration flattens to.
MaxParams == 210

\* fl_list[start : stop] of a list of n entries, as the set of the positions
\* it holds (Python clips a slice to the list).
Slice(start, stop, n) == {k \in 0..(n - 1) : start <= k /\ k < stop}

\* Line 20: num_batches = num_entries % 100
log_params_num_batches(num_entries) == num_entries % 100

\* Lines 23-24: the entries of batch i
log_params_batch(i, num_entries) ==
  LET end_ind == IF (i + 1) * 100 < num_entries THEN (i + 1) * 100 ELSE num_entries
  IN Slice(i * 100, end_ind, num_entries)

\* log_params(cfg), lines 15-27: the arguments of the calls of
\* mlflow.log_params it makes, in order, for a cfg of num_entries entries.
log_params(num_entries) ==
  IF num_entries > 100
  THEN LET num_batches == log_params_num_batches(num_entries)
       IN [n \in 1..num_batches |-> log_params_batch(n - 1, num_entries)]
  ELSE <<Slice(0, num_entries, num_entries)>>

InitLog ==
  /\ ProgIdle
  /\ NumIdle
  /\ DistIdle
  /\ GridIdle
  /\ lcfg \in 0..MaxParams
  /\ mlflow_log = <<>>
  /\ lpc = "config"

\* log_params(cfg)
LogParams ==
  /\ lpc = "config"
  /\ mlflow_log' = log_params(lcfg)
  /\ lpc' = "logged"
  /\ UNCHANGED <<lcfg, progVars, numVars, distVars, gridVars>>

NextLog == LogParams

SpecLog == InitLog /\ [][NextLog]_vars

(***************************************************************************)
(* Properties.                                                             *)
(***************************************************************************)
Reverse(s) == [i \in 1..Len(s) |-> s[Len(s) + 1 - i]]

IsPrefix(s, t) == Len(s) <= Len(t) /\ \A i \in 1..Len(s) : s[i] = t[i]

\* The positions of the events of lg with the given op.
Positions(lg, op) == {i \in 1..Len(lg) : lg[i].op = op}

IsPush(e) == e.op \in {"edfdv", "vdfdx"}

IsSpacePush(e) == e.op = "vdfdx"

IsVelocityPush(e) == e.op = "edfdv"

\* The (kind, coefficient) pairs of the pushes of lg, in execution order.
PushSchedule(lg) ==
  LET sel == SelectSeq(lg, IsPush)
  IN [i \in 1..Len(sel) |-> <<sel[i].op, sel[i].dur.coef>>]

Coefs(sel) == [i \in 1..Len(sel) |-> sel[i].dur.coef]

\* The integrator of the call in progress has returned.
AfterIntegrator == pc \in {"fp", "ne_after", "wave"}

\* Twice the length of a duration, in the units of dt.
TwiceDur(d) == IF d.coef = "1/2" THEN d.dt ELSE 2 * d.dt

SixthSchedule ==
  << <<"edfdv", "D1">>, <<"vdfdx", "a1">>, <<"edfdv", "D2">>, <<"vdfdx", "a2">>,
     <<"edfdv", "D3">>, <<"vdfdx", "a3">>, <<"edfdv", "D3">>, <<"vdfdx", "a2">>,
     <<"edfdv", "D2">>, <<"vdfdx", "a1">>, <<"edfdv", "D1">> >>

\* C1: the pushes of one call of the sixth-order integrator strictly
\* alternate velocity push / space push, start and end with a velocity push,
\* the space pushes are scaled a1, a2, a3, a2, a1 and the velocity pushes
\* D1, D2, D3, D3, D2, D1, and the schedule reads the same in both directions.
C1_SixthSchedule ==
  obj.vlasov_poisson = "SixthOrderHamIntegrator" =>
    LET s == PushSchedule(log) IN
      /\ IsPrefix(s, SixthSchedule)
      /\ \A i \in 1..(Len(s) - 1) : s[i][1] # s[i + 1][1]
      /\ Len(s) > 0 => s[1][1] = "edfdv"
      /\ AfterIntegrator =>
           /\ s[Len(s)][1] = "edfdv"
           /\ Reverse(s) = s
           /\ Coefs(SelectSeq(log, IsSpacePush)) = <<"a1", "a2", "a3", "a2", "a1">>
           /\ Coefs(SelectSeq(log, IsVelocityPush)) =
                <<"D1", "D2", "D3", "D3", "D2", "D1">>

\* A sixth-order call has made all its pushes.
C1_Witness ==
  /\ obj.vlasov_poisson = "SixthOrderHamIntegrator"
  /\ pc = "fp"
  /\ Len(PushSchedule(log)) = 11

\* C2: one call of the leapfrog integrator makes one space advection, then
\* one field solve, then one velocity advection; the velocity advection acts
\* on the space-advected f with force pond + e + dex_array[0], pond and e
\* being those of that field solve; the e returned is that e alone.
C2_LeapfrogOrder ==
  obj.vlasov_poisson = "LeapfrogIntegrator" =>
    LET kx == Positions(log, "vdfdx")
        kf == Positions(log, "field_solve")
        kv == Positions(log, "edfdv")
    IN /\ Cardinality(kx) <= 1 /\ Cardinality(kf) <= 1 /\ Cardinality(kv) <= 1
       /\ kf # {} => kx # {} /\ Only(kx) < Only(kf)
       /\ kv # {} => kf # {} /\ Only(kf) < Only(kv)
       /\ (AfterIntegrator /\ phase = "ready") =>
            /\ kv # {}
            /\ log[Only(kv)].args = <<Val(CallNo, Only(kx), "f")>>
            /\ log[Only(kv)].terms = {Val(CallNo, Only(kf), "pond"),
                                      Val(CallNo, Only(kf), "e"),
                                      DexAt(loc, 0)}
            /\ Cardinality(log[Only(kv)].terms) = 3
            /\ log[1].op = "ex_driver" /\ log[1].idx = 0
            /\ DexAt(loc, 0) = Val(CallNo, 1, "out")
            /\ loc.e = Val(CallNo, Only(kf), "e")

\* A leapfrog call has made its velocity advection.
C2_Witness ==
  /\ obj.vlasov_poisson = "LeapfrogIntegrator"
  /\ pc = "fp"
  /\ Positions(log, "edfdv") # {}

\* C3 as stated: the leapfrog space advection lasts dt/2 and the velocity
\* advection lasts dt.
C3_SpaceHalfStep ==
  obj.vlasov_poisson = "LeapfrogIntegrator" =>
    /\ \A k \in Positions(log, "vdfdx") : TwiceDur(log[k].dur) = obj.dt
    /\ \A k \in Positions(log, "edfdv") : TwiceDur(log[k].dur) = 2 * obj.dt

\* C3 amended: the leapfrog space advection lasts the full grid time step
\* dt, the same as the velocity advection.
C3_SpaceFullStep ==
  obj.vlasov_poisson = "LeapfrogIntegrator" =>
    /\ \A k \in Positions(log, "vdfdx") :
         log[k].dur.dt = cfg.dt /\ TwiceDur(log[k].dur) = 2 * cfg.dt
    /\ \A k \in Positions(log, "edfdv") :
         log[k].dur.dt = cfg.dt /\ TwiceDur(log[k].dur) = 2 * cfg.dt

\* A leapfrog call has made both advections.
C3_Witness ==
  /\ obj.vlasov_poisson = "LeapfrogIntegrator"
  /\ Positions(log, "vdfdx") # {}
  /\ Positions(log, "edfdv") # {}
  /\ pc = "ne_after"

Min(S) == CHOOSE x \in S : \A z \in S : x <= z

Max(S) == CHOOSE x \in S : \A z \in S : z <= x

DriverOps == {"ex_driver", "ey_driver"}

PreOps == DriverOps \cup {"Te", "nu_prof_fp", "nu_prof_krook"}

PushOps == {"vdfdx", "field_solve", "edfdv"}

\* C4: in a completed top-level step the drivers and the pre-step moments
\* are taken first, from the input state; then the integrator runs once;
\* then the collision operator is applied once, to the pushed f; then the
\* post-step density is taken from the post-collision f; and last the wave
\* solver runs once, with the two densities averaged and the input a, prev_a.
C4_StepOrder ==
  (pc = "idle" /\ nstep > 0) =>
    LET kI == Positions(log, "vlasov_poisson")
        kC == Positions(log, "Collisions")
        kW == Positions(log, "wave_solver")
        kM == Positions(log, "moment_x")
        kV == Positions(log, "edfdv")
        kS == Positions(log, "td_solver")
    IN /\ Cardinality(kI) = 1 /\ Cardinality(kC) = 1 /\ Cardinality(kW) = 1
       /\ Cardinality(kM) = 2 /\ kV # {}
       /\ LET I == Only(kI)
              C == Only(kC)
              W == Only(kW)
              M1 == Min(kM)
              M2 == Max(kM)
              f_in == log[I].args[1]
              f_coll == IF kS = {} THEN log[C].args[3]
                        ELSE Val(nstep, Only(kS), "f")
          IN /\ \A k \in 1..Len(log) : log[k].op \in PreOps => k < I
             /\ \E k \in 1..Len(log) : log[k].op = "ex_driver"
             /\ \E k \in 1..Len(log) : log[k].op = "ey_driver"
             /\ M1 < I /\ log[M1].args[1] = f_in /\ f_in.s < nstep
             /\ \A k \in Positions(log, "Te") : log[k].args[1] = f_in
             /\ \A k \in 1..Len(log) : log[k].op \in PushOps => I < k /\ k < C
             /\ log[C].args[3] = Val(nstep, Max(kV), "f")
             /\ \A k \in kS : C < k /\ k < M2
             /\ C < M2 /\ M2 < W /\ W = Len(log)
             /\ log[M2].args[1] = f_coll
             /\ log[W].terms = {Val(nstep, M1, "out"), Val(nstep, M2, "out")}
             /\ log[W].args[1] = log[I].args[4]
             /\ log[W].args[1].part = "a" /\ log[W].args[1].s = nstep - 1
             /\ log[W].args[2].part = "prev_a" /\ log[W].args[2].s = nstep - 1

\* A step with a collision solve has completed.
C4_Witness ==
  /\ pc = "idle"
  /\ nstep > 0
  /\ Positions(log, "td_solver") # {}
  /\ Positions(log, "wave_solver") # {}

\* C5: with a non-positive configured collision frequency the collision
\* step returns f unchanged, however often it is applied and whatever nu_fp,
\* nu_K and dt are, and neither builds the diagonals nor calls the solver.
C5_ZeroRateIdentity ==
  nin.nuee <= 0 =>
    /\ nf = nin.f
    /\ nops = <<>>
    /\ ndiag = NoDiag
    /\ nerr = "none"

\* The collision step has been applied twice, with positive rate profiles,
\* to a non-zero f under a zero configured frequency.
C5_Witness ==
  /\ nin.nuee <= 0
  /\ ncalls >= 2
  /\ nin.nu_fp > 0
  /\ nin.nu_K > 0
  /\ \E i \in 1..NV : nin.f[i].n > 0

\* The sum of column j of the tridiagonal matrix with diagonals dg.
ColumnSum(dg, j) ==
  RAdd(RAdd(IF j > 1 THEN dg.c[j - 1] ELSE RInt(0), dg.b[j]),
       IF j < NV THEN dg.a[j + 1] ELSE RInt(0))

\* C6: every column of the Dougherty matrix, the first and the last
\* included, sums to 1, and the sum of f over velocity is the same before
\* and after the implicit solve.
C6_DoughertyConserves ==
  ndiag # NoDiag =>
    /\ \A j \in 1..NV : ColumnSum(ndiag, j) = RInt(1)
    /\ ncalls = 1 => RSum(nf) = RSum(nin.f)

\* C7: the trapezoidal velocity moment of Krook.__call__(nu_K, f, dt) equals
\* that of f.
C7_KrookConservesDensity ==
  kout # NoKrook => RTrapz(kout.out) = RTrapz(kout.in)

\* Krook has relaxed a distribution at a positive rate and changed it.
C7_Witness ==
  /\ kout # NoKrook
  /\ nin.nu_K > 0
  /\ kout.out # kout.in

\* C8: with the Krook term switched on the collision stage applies the
\* Krook relaxation with the nu_K profile and duration dt, and the f it
\* returns differs from the f it was given.
C8_KrookApplied ==
  (cfg.krook_on /\ pc = "ne_after") =>
    LET C == Only(Positions(log, "Collisions")) IN
      /\ \E k \in Positions(log, "Krook") :
           /\ k > C
           /\ log[k].args[1] = loc.nu_K
           /\ log[k].dur = Dur("1", obj.dt)
      /\ loc.f # log[C].args[3]

\* C9: an integrator is constructed with the operator its cfg names, and a
\* cfg naming neither raises NotImplementedError and selects no operator.
C9_EdfdvSelection ==
  (phase # "unbuilt" /\ cfg.time \in {"sixth", "leapfrog"}) =>
    /\ cfg.edfdv = "exponential" => obj.edfdv = "VelocityExponential"
    /\ cfg.edfdv = "cubic-spline" => obj.edfdv = "VelocityCubicSpline"
    /\ cfg.edfdv \notin {"exponential", "cubic-spline"} =>
         /\ phase = "failed"
         /\ err = "NotImplementedError"
         /\ obj.edfdv = "none"
         /\ nstep = 0 /\ log = <<>>

\* Construction with an unrecognised edfdv has been attempted.
C9_Witness ==
  /\ phase = "failed"
  /\ cfg.time = "sixth"
  /\ cfg.edfdv = "upwind"

\* C10: an unrecognised cfg["terms"]["time"] raises NotImplementedError in
\* the constructor, before any step; NotImplementedError is never raised by
\* a step, and a constructed object holds one of the two integrators.
C10_TimeSelection ==
  /\ (phase # "unbuilt" /\ cfg.time \notin {"sixth", "leapfrog"}) =>
       /\ phase = "failed"
       /\ err = "NotImplementedError"
       /\ obj = NoObj
       /\ nstep = 0 /\ log = <<>> /\ pc = "idle"
  /\ err = "NotImplementedError" => nstep = 0 /\ log = <<>>
  /\ (phase = "ready" \/ log # <<>>) =>
       obj.vlasov_poisson \in {"SixthOrderHamIntegrator", "LeapfrogIntegrator"}

\* Construction with an unrecognised scheme (and a recognised edfdv) has
\* been attempted.
C10_Witness ==
  /\ phase = "failed"
  /\ cfg.time = "rk4"
  /\ cfg.edfdv = "exponential"

\* The operator names the commented-out selection tests for.
RecognisedFpOperators == {"dougherty", "lenard_bernstein"}

\* C11: constructing the collision stage with a Fokker-Planck operator
\* selection that is not a recognised operator raises an error at
\* construction, before any step, and selects no operator.
C11_FpOperatorChecked ==
  (phase # "unbuilt" /\ cfg.fp_operator \notin RecognisedFpOperators) =>
    /\ phase = "failed"
    /\ err # "none"
    /\ obj.fp = "none"
    /\ nstep = 0

\* The key begins with the piece "species-".
HasSpeciesPrefix(name) == name # <<>> /\ Head(name) = "species-"

\* The sum of the amplitudes of the species among the first i entries of d.
RECURSIVE SpeciesSum(_, _)
SpeciesSum(d, i) ==
  IF i = 0 THEN 0
  ELSE SpeciesSum(d, i - 1) + IF HasSpeciesPrefix(d[i].name) THEN d[i].amp ELSE 0

\* C12: _initialize_total_distribution_ raises ValueError exactly when no
\* key of cfg["density"] starts with "species-"; when every species has
\* recognised profile bases it returns the sum of the species'
\* distributions; and in the vfp1d helper a species with a density or
\* temperature basis other than uniform, tanh, sine raises
\* NotImplementedError.
C12_TotalDistribution ==
  dret.err # "pending" =>
    LET d == dcfg.density
        sp == {i \in 1..Len(d) : HasSpeciesPrefix(d[i].name)}
        bad == {i \in sp : \E k \in {"n", "T"} :
                              d[i].basis[k] \notin {"uniform", "tanh", "sine"}}
    IN /\ (dret.raised /\ dret.err = "ValueError") <=> (sp = {})
       /\ (sp # {} /\ bad = {}) =>
            /\ ~dret.raised
            /\ dret.val.f = SpeciesSum(d, Len(d))
       /\ (dcfg.helper = "vfp1d" /\ bad # {}) =>
            /\ dret.raised
            /\ dret.err = "NotImplementedError"

\* A configuration with two species has been turned into the sum of the two
\* distributions.
C12_Witness ==
  /\ dret.err = "none"
  /\ Len(dcfg.density) >= 2
  /\ \E i, j \in 1..Len(dcfg.density) :
       /\ i # j
       /\ HasSpeciesPrefix(dcfg.density[i].name)
       /\ HasSpeciesPrefix(dcfg.density[j].name)
       /\ dret.val.f = dcfg.density[i].amp + dcfg.density[j].amp

\* C13: after any number of consecutive steps the state bundle has exactly
\* the eight keys electron, e, de, a, da, prev_a, ni, Z, with ni and Z as in
\* the initial state; a step returns a new bundle and, while it runs and
\* when it returns, the bundle it was passed is as it was passed.
C13_BundleFrame ==
  /\ DOMAIN y = {"electron", "e", "de", "a", "da", "prev_a", "ni", "Z"}
  /\ y.ni = init_state.ni
  /\ y.Z = init_state.Z
  /\ DOMAIN stp.vf_ret = DOMAIN y
  /\ stp.vf_ret.ni = init_state.ni
  /\ stp.vf_ret.Z = init_state.Z
  /\ pc # "idle" => y = stp.y0

\* Two consecutive steps have been taken and have replaced the distribution
\* and the fields.
C13_Witness ==
  /\ pc = "idle"
  /\ nstep >= 2
  /\ y.electron # init_state.electron
  /\ y.a # init_state.a
  /\ y.e # init_state.e

\* The positions inside the step function after its first statement.
InsideStep == {"moments", "nu", "integ", "fp", "ne_after", "wave", "ret"}

\* C15: a call of Stepper.step applies the step function once, at t0 (not
\* t1) and on y0, and returns what the step function returned as y1, with
\* the result successful; after n calls the step function has been applied
\* n times.
C15_StepperOnce ==
  /\ (phase = "ready" /\ pc = "idle") => nstep = stp.calls
  /\ pc \in {"drivers"} \cup (InsideStep \ {"ret"}) => nstep = stp.calls - 1
  /\ pc = "ret" => nstep = stp.calls
  /\ stp.calls > 0 => (stp.t0 # stp.t1 /\ stp.t0 = stp.calls - 1)
  /\ pc \in InsideStep => (loc.t = stp.t0 /\ y = stp.y0)
  /\ stp.result \in {"none", "successful"}
  /\ stp.result = "successful" =>
       /\ pc = "idle"
       /\ stp.y1 = stp.vf_ret
       /\ y = stp.y1
       /\ stp.y1.prev_a = Val(stp.calls, Len(log), "prev_a")
       /\ log[Len(log)].op = "wave_solver"

\* Stepper.step has returned for the second time.
C15_Witness ==
  /\ pc = "idle"
  /\ stp.calls >= 2
  /\ stp.result = "successful"

\* The sixth-order integrator has returned in the step in progress.
SixthDone ==
  /\ AfterIntegrator
  /\ obj.vlasov_poisson = "SixthOrderHamIntegrator"

\* C17: one call of the sixth-order integrator performs 7 field solves.
C17_SevenFieldSolves ==
  SixthDone => Cardinality(Positions(log, "field_solve")) = 7

\* C17, amended: one call of the sixth-order integrator performs 6 field
\* solves, one immediately before each of its 6 velocity pushes, with 5
\* space pushes between them (11 pushes).
C17_SixFieldSolves ==
  SixthDone =>
    /\ Cardinality(Positions(log, "field_solve")) = 6
    /\ Cardinality(Positions(log, "edfdv")) = 6
    /\ Cardinality(Positions(log, "vdfdx")) = 5
    /\ \A k \in Positions(log, "edfdv") : log[k - 1].op = "field_solve"
    /\ \A k \in Positions(log, "field_solve") : log[k + 1].op = "edfdv"

\* A sixth-order call has completed inside a step.
C17_Witness ==
  /\ SixthDone
  /\ pc = "fp"
  /\ Positions(log, "field_solve") # {}

\* The positions of the velocity pushes of lg, in order.
VelocityPushes(lg) == SelectSeq([k \in 1..Len(lg) |-> k], LAMBDA k : lg[k].op = "edfdv")

\* The f in hand before event k of lg: the output of the latest push before
\* k, or the f the integrator was called with.
CurrentF(lg, k, f_in) ==
  LET before == {j \in 1..(k - 1) : lg[j].op \in {"edfdv", "vdfdx"}}
  IN IF before = {} THEN f_in ELSE Val(CallNo, Max(before), "f")

\* C20: in the sixth-order integrator the i-th velocity push (i = 0, 1, ...)
\* acts on the current f with a force made of the ponderomotive force and
\* field of a solve on that same f, made right before the push with
\* prev_ex=None and dt=None, and of dex_array[i].
C20_SixthForce ==
  (SixthDone /\ pc = "fp") =>
    LET vp == VelocityPushes(log)
        f_in == log[Only(Positions(log, "vlasov_poisson"))].args[1]
    IN \A i \in 1..Len(vp) :
         LET k == vp[i] IN
           /\ log[k - 1].op = "field_solve"
           /\ log[k].args[1] = CurrentF(log, k, f_in)
           /\ log[k - 1].args[1] = log[k].args[1]
           /\ log[k - 1].args[5] = NoneVal
           /\ log[k - 1].dur = Dur("None", 0)
           /\ log[k].terms = {Val(CallNo, k - 1, "pond"), Val(CallNo, k - 1, "e"),
                              Val(CallNo, i, "out")}
           /\ log[i].op = "ex_driver"
           /\ log[i].idx = i - 1

\* A sixth-order call with its six velocity pushes has completed in the
\* second step, where prev_ex = y["e"] is a computed field.
C20_Witness ==
  /\ SixthDone
  /\ pc = "fp"
  /\ nstep = 1
  /\ y.e # init_state.e
  /\ Len(VelocityPushes(log)) = 6

\* C18: the vbar of a Dougherty call on f is the mean velocity of f, its
\* first velocity moment divided by its zeroth, and v0t_sq is the variance
\* of f about that mean, whatever the density of the cell.
C18_VbarIsMean ==
  (ncalls = 1 /\ ndiag # NoDiag) =>
    LET f == IntVec(nin.f)
        M0 == Trapz(f)
        M1 == Trapz([i \in 1..NV |-> f[i] * VGrid[i]])
    IN M0 > 0 =>
         /\ ndiag.vbar * M0 = M1
         /\ ndiag.v0t_sq * M0 * M0 * M0 =
              Trapz([i \in 1..NV |-> f[i] * (M0 * VGrid[i] - M1) * (M0 * VGrid[i] - M1)])

\* C19: the grid has nx cell centres tiling [xmin, xmax], for xmin = 0 and
\* for xmin # 0: dx = (xmax - xmin) / nx, consecutive entries of x differ by
\* dx, the first is xmin + dx/2 and the last xmax - dx/2; and x_a has nx + 2
\* entries, one ghost cell at distance dx beyond each end of x.
C19_GridTilesExtent ==
  gpc = "solver" =>
    LET g == gcfg.grid
        half == RDiv(g.dx, RInt(2))
    IN /\ g.dx = RDiv(RSub(g.xmax, g.xmin), RInt(g.nx))
       /\ Len(g.x) = g.nx
       /\ \A i \in 1..(g.nx - 1) : RSub(g.x[i + 1], g.x[i]) = g.dx
       /\ g.x[1] = RAdd(g.xmin, half)
       /\ g.x[g.nx] = RSub(g.xmax, half)
       /\ Len(g.x_a) = g.nx + 2
       /\ g.x_a[1] = RSub(g.x[1], g.dx)
       /\ g.x_a[g.nx + 2] = RAdd(g.x[g.nx], g.dx)
       /\ \A i \in 1..g.nx : g.x_a[i + 1] = g.x[i]

\* The stage indices the integrator has read in the call in progress: the
\* idx of every ex driver value that is a term of the force of a velocity
\* push.
StageIndicesRead(lg) ==
  {lg[j].idx : j \in {j \in Positions(lg, "ex_driver") :
                        \E k \in Positions(lg, "edfdv") :
                          Val(CallNo, j, "out") \in lg[k].terms}}

\* The coefficients of the space pushes of lg before position k, in order.
SpaceCoefsBefore(lg, k) ==
  LET ps == SelectSeq([j \in 1..(k - 1) |-> j], LAMBDA j : lg[j].op = "vdfdx")
  IN [n \in 1..Len(ps) |-> lg[ps[n]].dur.coef]

\* The position of the ex driver evaluation that the velocity push at
\* position k of lg takes its driver field from.
DriverOf(lg, k) ==
  Only({j \in Positions(lg, "ex_driver") : Val(CallNo, j, "out") \in lg[k].terms})

\* The evaluation times of the drivers in the step in progress.
EvaluationTimes(lg) ==
  {DecAdd(Dec(loc.t), dt_array_value(lg[j].toff, obj.dt)) :
     j \in Positions(lg, "ex_driver") \cup Positions(lg, "ey_driver")}

\* What C21 states of every scheme but the count of stage indices: the ex
\* driver is evaluated once per entry of dt_array, at t plus that entry; in
\* the sixth-order scheme the offset of the i-th velocity push is dt times
\* the sum of the space-push coefficients applied before it, the offsets
\* are 0, a1, a1+a2, a1+a2+a3, a1+2 a2+a3, 2 a1+2 a2+a3 times dt, the last
\* is exactly dt; and there are at most 7 distinct evaluation times.
DriverTimes ==
  LET dta == obj.dt_array
      vp == VelocityPushes(log)
  IN /\ Cardinality(Positions(log, "ex_driver")) = Len(dta)
     /\ \A i \in 1..Len(dta) :
          /\ log[i].op = "ex_driver"
          /\ log[i].toff = dta[i]
          /\ log[i].idx = i - 1
     /\ SixthDone =>
          /\ \A i \in 1..Len(vp) :
               /\ DriverOf(log, vp[i]) = i
               /\ dt_array_value(log[i].toff, obj.dt) =
                    dt_array_value(SpaceCoefsBefore(log, vp[i]), obj.dt)
          /\ [i \in 1..Len(dta) |-> dt_array_value(dta[i], 1)] =
               << Dec(0), DecNormal(a1), DecNormal(DecAdd(a1, a2)),
                  DecNormal(DecAdd(DecAdd(a1, a2), a3)),
                  DecNormal(DecAdd(DecAdd(a1, DecScale(2, a2)), a3)),
                  DecNormal(DecAdd(DecAdd(DecScale(2, a1), DecScale(2, a2)), a3)) >>
          /\ DecNormal(DecAdd(DecAdd(DecScale(2, a1), DecScale(2, a2)), a3)) = Dec(1)
          /\ dt_array_value(dta[Len(dta)], obj.dt) = Dec(obj.dt)
     /\ Cardinality(EvaluationTimes(log)) <= 7

\* C21: in each step the ex driver is evaluated once per entry of the active
\* integrator's dt_array, at t plus that entry, and the list has as many
\* entries as the integrator reads stage indices; the sixth-order offsets
\* are the running sums of the space-push coefficients times dt, the last
\* exactly dt; there are at most 7 distinct evaluation times.
C21_DriverTimes ==
  AfterIntegrator =>
    /\ DriverTimes
    /\ Len(obj.dt_array) = Cardinality(StageIndicesRead(log))

\* C21, amended: as C21, but the list has as many entries as the integrator
\* reads stage indices in the sixth-order scheme only (6 and 6); the
\* leapfrog's list has 2 entries and the leapfrog reads stage index 0
\* alone, the entry at dt serving the ey driver.
C21_DriverTimesAmended ==
  AfterIntegrator =>
    /\ DriverTimes
    /\ SixthDone =>
         /\ Len(obj.dt_array) = 6
         /\ StageIndicesRead(log) = 0..5
    /\ obj.vlasov_poisson = "LeapfrogIntegrator" =>
         /\ Len(obj.dt_array) = 2
         /\ StageIndicesRead(log) = {0}
         /\ log[Only(Positions(log, "ey_driver"))].toff = obj.dt_array[2]

\* A sixth-order call with dt = 2 has read its six stage indices, the last
\* driver value evaluated at t + 2.
C21_Witness ==
  /\ SixthDone
  /\ cfg.dt = 2
  /\ Cardinality(StageIndicesRead(log)) = 6
  /\ dt_array_value(log[6].toff, obj.dt) = Dec(2)

\* The collision stage of the step in progress has returned.
CollisionDone == pc \in {"ne_after", "wave"}

\* C22: with the Fokker-Planck term on, the profile handed to the collision
\* operator in a step is the shape nu_prof scaled by ne / Te^1.5, ne and Te
\* being the moments of the distribution the step started from: they are
\* computed before any push of the step, on y0["electron"], while the
\* operator itself acts on the pushed distribution.
C22_NuFpFromStartOfStep ==
  (cfg.fp_on /\ CollisionDone) =>
    LET c == Only(Positions(log, "Collisions"))
        nu == log[c].args[1]
        vp == Only(Positions(log, "vlasov_poisson"))
    IN /\ nu.s = CallNo
       /\ nu.part = "out"
       /\ nu.k \in 1..(vp - 1)
       /\ \A j \in 1..nu.k : ~IsPush(log[j])
       /\ log[nu.k].op = "nu_prof_fp"
       /\ Len(log[nu.k].args) = 2
       /\ LET ne == log[nu.k].args[1]
              Te == log[nu.k].args[2]
          IN /\ ne.s = CallNo /\ ne.k \in 1..(nu.k - 1)
             /\ log[ne.k].op = "moment_x"
             /\ log[ne.k].args = <<stp.y0.electron>>
             /\ Te.s = CallNo /\ Te.k \in 1..(nu.k - 1)
             /\ log[Te.k].op = "Te"
             /\ log[Te.k].args = <<stp.y0.electron, ne>>
       /\ log[c].args[3] # stp.y0.electron
       /\ \E j \in 1..(c - 1) : IsPush(log[j]) /\ log[c].args[3] = Val(CallNo, j, "f")
       /\ \A d \in Positions(log, "Dougherty") : log[d].args[1] = nu
       /\ \A k \in Positions(log, "nu_prof_krook") : log[k].args = <<>>

\* In the second step, with the Fokker-Planck term on and nuee > 0, the
\* Dougherty operator has been applied with the scaled profile.
C22_Witness ==
  /\ cfg.fp_on
  /\ cfg.nuee > 0
  /\ CollisionDone
  /\ nstep = 1
  /\ stp.y0.electron # init_state.electron
  /\ Positions(log, "Dougherty") # {}

\* C23: with the Fokker-Planck term off the step passes nu_fp = None, and
\* the collision stage then invokes neither the Dougherty operator nor the
\* tridiagonal solver and returns f unchanged, whatever cfg["nuee"] is; the
\* Dougherty operator is never called with nu = None (and so no step fails
\* with a TypeError).
C23_FpOffSkipsDougherty ==
  /\ \A d \in Positions(log, "Dougherty") : log[d].args[1] # NoneVal
  /\ err # "TypeError"
  /\ (~cfg.fp_on) =>
       /\ \A c \in Positions(log, "Collisions") : log[c].args[1] = NoneVal
       /\ Positions(log, "Dougherty") = {}
       /\ Positions(log, "td_solver") = {}
       /\ CollisionDone => loc.f = log[Only(Positions(log, "Collisions"))].args[3]

\* get_derived_quantities has run on the configuration.
DerivedDone == gpc \in {"derived", "solver"}

\* C24: for every tmax > 0 and dt > 0 the step budget max_steps set by
\* get_derived_quantities is at least nt, the number of steps of size dt
\* that reach the re-derived final time tmax = dt * nt.
C24_BudgetCoversRun ==
  DerivedDone =>
    LET g == gcfg.grid IN
      /\ g.nt >= 1
      /\ g.tmax = RMul(g.dt, RInt(g.nt))
      /\ g.max_steps >= g.nt

\* C24, amended: the budget covers the run when nt <= 10^6, where it is
\* nt + 4; for nt > 10^6 it is capped at 10^6, fewer than the nt steps that
\* reach tmax = dt * nt.
C24_BudgetCappedAtMillion ==
  DerivedDone =>
    LET g == gcfg.grid IN
      /\ g.nt >= 1
      /\ g.tmax = RMul(g.dt, RInt(g.nt))
      /\ g.nt <= 1000000 => (g.max_steps = g.nt + 4 /\ g.max_steps >= g.nt)
      /\ g.nt > 1000000 => (g.max_steps = 1000000 /\ g.max_steps < g.nt)

\* get_derived_quantities has run on a configuration of more than 10^6
\* steps, with the dt of the configuration.
C24_Witness ==
  /\ gpc = "derived"
  /\ ~gcfg.ey
  /\ gcfg.grid.nt = 1500001
  /\ gcfg.grid.max_steps < gcfg.grid.nt

\* How many batches of the log hold entry k.
TimesLogged(k) == Cardinality({n \in 1..Len(mlflow_log) : k \in mlflow_log[n]})

\* C25: for a configuration that flattens to any number N >= 0 of entries,
\* log_params passes every entry to mlflow.log_params exactly once, in
\* calls of at most 100 entries each, and makes no call with an empty batch
\* when N > 100.
C25_EveryParamLoggedOnce ==
  lpc = "logged" =>
    /\ \A k \in 0..(lcfg - 1) : TimesLogged(k) = 1
    /\ \A n \in 1..Len(mlflow_log) :
         /\ mlflow_log[n] \subseteq 0..(lcfg - 1)
         /\ Cardinality(mlflow_log[n]) <= 100
         /\ lcfg > 100 => mlflow_log[n] # {}

TypeOK ==
  /\ phase \in {"unbuilt", "ready", "failed"}
  /\ pc \in {"idle", "drivers", "moments", "nu", "integ", "fp", "ne_after", "wave", "ret"}
  /\ nstep \in 0..MaxSteps
====
